---- MODULE Spec2Model ----
(***************************************************************************)
(* A model of canvas.py: the response classifier (_parse_response), the    *)
(* ID stream generator (_file_id_stream), the probe worker (_fetch_file), *)
(* the scan coordinator (scan_canvas_files) and the part of _cli that      *)
(* calls the scan and writes the report.                                   *)
(*                                                                         *)
(* Text (URLs, bodies, header values) is a sequence of tokens; a token is  *)
(* a piece of text no pattern of the program looks inside of.  A Python    *)
(* value is a record [t, s, d]: t its type, s its text when it is a str, *)
(* d its items (a set of <<key, value>>) when it is a dict.                *)
(***************************************************************************)
EXTENDS Integers, Sequences, FiniteSets, TLC

\* ------------------------------------------------------------------ bounds
MaxCount == 3
MaxWorkers == 2
MaxStart == 6
MaxStreamCount == 4
MaxFrags == 3
MaxRuns == 2

\* ------------------------------------------------------------ Python values
PyNone == [t |-> "None", s |-> <<>>, d |-> {}]
PyStr(s) == [t |-> "str", s |-> s, d |-> {}]
PyDict(d) == [t |-> "dict", s |-> <<>>, d |-> d]
PyList == [t |-> "list", s |-> <<>>, d |-> {}]

Min(S) == CHOOSE x \in S : \A y \in S : x <= y
Max(S) == CHOOSE x \in S : \A y \in S : x >= y

\* dict.get(key): the value under key, None when the key is absent
DictGet(v, key) ==
    IF \E p \in v.d : p[1] = key
    THEN (CHOOSE p \in v.d : p[1] = key)[2]
    ELSE PyNone

\* ------------------------------------------------------------------- tokens
DigitTok == <<"0", "1", "2", "3", "4", "5", "6", "7", "8", "9">>
Digits == {DigitTok[i] : i \in 1..10}

RECURSIVE DecimalNat(_)
DecimalNat(n) == IF n < 10 THEN <<DigitTok[n + 1]>>
                 ELSE DecimalNat(n \div 10) \o <<DigitTok[(n % 10) + 1]>>
\* str(int) as the f-string of line 65 formats the file ID
Decimal(n) == IF n < 0 THEN <<"-">> \o DecimalNat(0 - n) ELSE DecimalNat(n)

\* the tokens at which urlparse ends the network location
PathToks == {"/", "/courses/1", "/files/", "/files", "/download", "/login",
             "/download?download_frd=1"}
Schemes == {"https", "http"}

\* urlparse(url): the scheme before "://" and the netloc up to the path
UrlScheme(url) ==
    IF Len(url) >= 2 /\ url[1] \in Schemes /\ url[2] = "://" THEN <<url[1]>> ELSE <<>>
UrlNetloc(url) ==
    IF Len(url) >= 2 /\ url[1] \in Schemes /\ url[2] = "://"
    THEN LET stops == {i \in 3..Len(url) : url[i] \in PathToks}
             last == IF stops = {} THEN Len(url) ELSE Min(stops) - 1
         IN  SubSeq(url, 3, last)
    ELSE <<>>

\* ------------------------------------------------------- regular expressions
NoMatch == [found |-> FALSE, group |-> <<>>]
Match(g) == [found |-> TRUE, group |-> g]

\* re.search(r"Download (.*?)</a>", body): the leftmost "Download " that a
\* "</a>" follows with no newline between ('.' matches no newline), and the
\* text up to the first such "</a>"
NameSearch(body) ==
    LET closes(i) == {j \in (i + 1)..Len(body) : body[j] = "</a>"}
        ok(i) == /\ body[i] = "Download "
                 /\ closes(i) # {}
                 /\ \A k \in (i + 1)..(Min(closes(i)) - 1) : body[k] # "\n"
        starts == {i \in 1..Len(body) : ok(i)}
    IN  IF starts = {} THEN NoMatch
        ELSE LET i == Min(starts)
             IN  Match(SubSeq(body, i + 1, Min(closes(i)) - 1))

\* re.search(r"<a href=\"([^\"]*?/files/\d+)", body): the leftmost <a href="
\* whose value reaches a "/files/" followed by a digit before any quote; the
\* group runs from the start of the value to the end of the digits
HrefSearch(body) ==
    LET files(i) == {m \in (i + 1)..(Len(body) - 1) :
                        /\ body[m] = "/files/"
                        /\ body[m + 1] \in Digits
                        /\ \A k \in (i + 1)..(m - 1) : body[k] # "\""}
        starts == {i \in 1..Len(body) : body[i] = "<a href=\"" /\ files(i) # {}}
    IN  IF starts = {} THEN NoMatch
        ELSE LET i == Min(starts)
                 m == Min(files(i))
                 e == Max({k \in (m + 1)..Len(body) :
                              \A x \in (m + 1)..k : body[x] \in Digits})
             IN  Match(SubSeq(body, i + 1, e))

\* ---------------------------------------------------------------- json.loads
\* The table of the string literals of the JSON texts: the literal's token
\* and the text it denotes.
JsonStrings ==
    { <<"\"display_name\"", <<"display_name">>>>,
      <<"\"created_at\"", <<"created_at">>>>,
      <<"\"url\"", <<"url">>>>,
      <<"\"X\"", <<"X">>>>,
      <<"\"Y\"", <<"Y">>>>,
      <<"\"T\"", <<"T">>>>,
      <<"\"https://h/files/99/download?download_frd=1\"",
        <<"https", "://", "h", "/files/", "9", "9", "/download?download_frd=1">>>> }
JsonStringToks == {p[1] : p \in JsonStrings}
Unquote(tok) == (CHOOSE p \in JsonStrings : p[1] = tok)[2]

JsonError == [ok |-> FALSE, value |-> PyNone]
JsonOk(v) == [ok |-> TRUE, value |-> v]

\* a member's value: a string literal or null
JsonScalar(tok) == IF tok = "null" THEN PyNone ELSE PyStr(Unquote(tok))

\* json.loads(text) for the documents the host sends: a string, null, an
\* empty array, or an object of string/null members (a repeated key keeps
\* its last value), with white space between the tokens skipped; anything
\* else is a JSONDecodeError
JsonLoads(text) ==
    LET NotSpace(tok) == tok # "\n"
        body == SelectSeq(text, NotSpace)
        n == Len(body)
        members == (n - 1) \div 4
        keyAt(i) == 4 * i - 2
        wellFormed ==
            /\ n >= 5 /\ (n - 1) % 4 = 0
            /\ body[1] = "{" /\ body[n] = "}"
            /\ \A i \in 1..members :
                  /\ body[keyAt(i)] \in JsonStringToks
                  /\ body[keyAt(i) + 1] = ":"
                  /\ body[keyAt(i) + 2] \in JsonStringToks \cup {"null"}
                  /\ (i < members => body[keyAt(i) + 3] = ",")
        lastOf(k) == Max({i \in 1..members : Unquote(body[keyAt(i)]) = k})
        keys == {Unquote(body[keyAt(i)]) : i \in 1..members}
    IN  IF n = 1 /\ body[1] \in JsonStringToks THEN JsonOk(PyStr(Unquote(body[1])))
        ELSE IF n = 1 /\ body[1] = "null" THEN JsonOk(PyNone)
        ELSE IF body = <<"[", "]">> THEN JsonOk(PyList)
        ELSE IF body = <<"{", "}">> THEN JsonOk(PyDict({}))
        ELSE IF wellFormed
             THEN JsonOk(PyDict({<<k, JsonScalar(body[keyAt(lastOf(k)) + 2])>> : k \in keys}))
             ELSE JsonError

\* ------------------------------------------------------ _parse_response
Return(v) == [kind |-> "return", value |-> v, exc |-> "none"]
Raise(e) == [kind |-> "raise", value |-> PyNone, exc |-> e]

Has(s, tok) == \E i \in 1..Len(s) : s[i] = tok

DownloadSuffix == <<"/download?download_frd=1">>

\* lines 41-42: scheme://netloc, the matched href text, the download suffix
DownloadUrl(geturl, file_path) ==
    UrlScheme(geturl) \o <<"://">> \o UrlNetloc(geturl) \o file_path \o DownloadSuffix

\* mutant: one of the two patterns is enough
ParseHtmlEither(body, geturl) ==
    LET name_match == NameSearch(body)
        url_match == HrefSearch(body)
    IN  IF ~(name_match.found \/ url_match.found)
        THEN Raise("ValueError: Unable to parse HTML response from Canvas")
        ELSE Return(PyDict({ <<<<"display_name">>, PyStr(name_match.group)>>,
                             <<<<"created_at">>, PyStr(<<>>)>>,
                             <<<<"url">>, PyStr(DownloadUrl(geturl, url_match.group))>> }))

\* lines 33-43
ParseHtml(body, geturl) ==
    LET name_match == NameSearch(body)
        url_match == HrefSearch(body)
    IN  IF ~(name_match.found /\ url_match.found)
        THEN Raise("ValueError: Unable to parse HTML response from Canvas")
        ELSE Return(PyDict({ <<<<"display_name">>, PyStr(name_match.group)>>,
                             <<<<"created_at">>, PyStr(<<>>)>>,
                             <<<<"url">>, PyStr(DownloadUrl(geturl, url_match.group))>> }))

\* lines 30-31
ParseJson(body) ==
    LET r == JsonLoads(body)
    IN  IF r.ok THEN Return(r.value) ELSE Raise("JSONDecodeError")

\* _parse_response(resp): content_type is the Content-Type header ("" when
\* absent), body the decoded body, geturl the effective URL
ParseResponse(content_type, body, geturl) ==
    IF Has(content_type, "application/json") THEN ParseJson(body)
    ELSE IF Has(content_type, "text/html") THEN ParseHtml(body, geturl)
    ELSE Raise("ValueError: Unexpected content type")

\* ------------------------------------------------------ _file_id_stream
\* range(first, stop, -1): what the iterator standing at cur yields from there
RECURSIVE RangeDown(_, _)
RangeDown(cur, stop) == IF cur > stop THEN <<cur>> \o RangeDown(cur - 1, stop) ELSE <<>>

\* line 50: range(start - 1, start - count - 1, -1)
\* mutant: the range starts at start itself
StreamFirstInclusive(start) == start
StreamFirst(start) == start - 1
\* mutant: the range stops one ID early
StreamStopEarly(start, count) == start - count
StreamStop(start, count) == start - count - 1
FileIdStream(start, count) == RangeDown(StreamFirst(start), StreamStop(start, count))

\* ------------------------------------------------------------------ the host
\* What the host answers for one file ID: "json" and "html" are the two forms
\* of an existing file, "notfound" is HTTP 404, "forbidden" another HTTP
\* error status, "garbled" a page without the download link.
HostKinds == {"json", "html", "notfound", "forbidden", "garbled"}

BaseUrl == <<"https", "://", "h", "/courses/1", "/files">>
\* line 65
ProbeUrl(base_url, file_id) == base_url \o <<"/">> \o Decimal(file_id)

JsonCT == <<"application/json", "; charset=utf-8">>
HtmlCT == <<"text/html", "; charset=utf-8">>
PlainCT == <<"text/plain">>

JsonBody == <<"{", "\"display_name\"", ":", "\"X\"", ",",
              "\"created_at\"", ":", "\"T\"", ",",
              "\"url\"", ":", "\"https://h/files/99/download?download_frd=1\"", "}">>
HtmlBody(fid) == <<"<a href=\"", "/courses/1", "/files/">> \o Decimal(fid)
                 \o <<"/download", "\"", ">", "Download ", "report.pdf", "</a>">>
GarbledBody == <<"<a href=\"", "/login", "\"", ">", "Log in", "</a>">>
TruncatedBody == <<"{", "\"display_name\"", ":">>

HostResponse(kind, fid) ==
    CASE kind = "json" ->
           [status |-> 200, content_type |-> JsonCT, body |-> JsonBody,
            geturl |-> ProbeUrl(BaseUrl, fid)]
      [] kind = "html" ->
           [status |-> 200, content_type |-> HtmlCT, body |-> HtmlBody(fid),
            geturl |-> ProbeUrl(BaseUrl, fid)]
      [] kind = "garbled" ->
           \* a 200 that _parse_response refuses; which of its three refusals
           \* goes by the ID: a page without the patterns, a content type it
           \* does not know, a JSON body cut short
           [status |-> 200,
            content_type |-> CASE fid % 3 = 0 -> HtmlCT
                               [] fid % 3 = 1 -> PlainCT
                               [] fid % 3 = 2 -> JsonCT,
            body |-> IF fid % 3 = 2 THEN TruncatedBody ELSE GarbledBody,
            geturl |-> <<"https", "://", "h", "/login">>]
      [] kind = "notfound" ->
           [status |-> 404, content_type |-> HtmlCT, body |-> <<>>,
            geturl |-> ProbeUrl(BaseUrl, fid)]
      [] kind = "forbidden" ->
           [status |-> 403, content_type |-> HtmlCT, body |-> <<>>,
            geturl |-> ProbeUrl(BaseUrl, fid)]

\* ------------------------------------------------------------- _fetch_file
\* lines 70-76: the record of a hit
FileRecord(file_id, url, meta) ==
    [id |-> file_id,
     url |-> url,
     display_name |-> DictGet(meta, <<"display_name">>),
     created_at |-> DictGet(meta, <<"created_at">>),
     download_url |-> DictGet(meta, <<"url">>)]

\* mutant: a 404 is handled like any other error status
FetchOutcomeNo404(file_id, base_url, resp) ==
    IF resp.status # 200 THEN [kind |-> "raise", rec |-> {}, exc |-> "HTTPError"]
    ELSE LET meta == ParseResponse(resp.content_type, resp.body, resp.geturl)
         IN  IF meta.kind = "raise" THEN [kind |-> "raise", rec |-> {}, exc |-> meta.exc]
             ELSE IF meta.value.t # "dict"
                  THEN [kind |-> "raise", rec |-> {}, exc |-> "AttributeError"]
                  ELSE [kind |-> "record",
                        rec |-> {FileRecord(file_id, ProbeUrl(base_url, file_id), meta.value)},
                        exc |-> "none"]

\* mutant: an error status other than 404 is answered with a record without metadata
FetchOutcomeErrorRecord(file_id, base_url, resp) ==
    IF resp.status = 404 THEN [kind |-> "none", rec |-> {}, exc |-> "none"]
    ELSE LET meta == IF resp.status # 200 THEN Return(PyDict({}))
                     ELSE ParseResponse(resp.content_type, resp.body, resp.geturl)
         IN  IF meta.kind = "raise" THEN [kind |-> "raise", rec |-> {}, exc |-> meta.exc]
             ELSE IF meta.value.t # "dict"
                  THEN [kind |-> "raise", rec |-> {}, exc |-> "AttributeError"]
                  ELSE [kind |-> "record",
                        rec |-> {FileRecord(file_id, ProbeUrl(base_url, file_id), meta.value)},
                        exc |-> "none"]

\* mutant: an answer that cannot be parsed is passed over like a 404
FetchOutcomeParseMiss(file_id, base_url, resp) ==
    IF resp.status = 404 THEN [kind |-> "none", rec |-> {}, exc |-> "none"]
    ELSE IF resp.status # 200 THEN [kind |-> "raise", rec |-> {}, exc |-> "HTTPError"]
    ELSE LET meta == ParseResponse(resp.content_type, resp.body, resp.geturl)
         IN  IF meta.kind = "raise" THEN [kind |-> "none", rec |-> {}, exc |-> "none"]
             ELSE IF meta.value.t # "dict"
                  THEN [kind |-> "raise", rec |-> {}, exc |-> "AttributeError"]
                  ELSE [kind |-> "record",
                        rec |-> {FileRecord(file_id, ProbeUrl(base_url, file_id), meta.value)},
                        exc |-> "none"]

\* What _fetch_file does with the answer to its GET (lines 66-85):
\*   "record": returns the record;  "none": returns None (404);
\*   "raise": sets stop_event and raises.
FetchOutcome(file_id, base_url, resp) ==
    IF resp.status = 404 THEN [kind |-> "none", rec |-> {}, exc |-> "none"]
    ELSE IF resp.status # 200 THEN [kind |-> "raise", rec |-> {}, exc |-> "HTTPError"]
    ELSE LET meta == ParseResponse(resp.content_type, resp.body, resp.geturl)
         IN  IF meta.kind = "raise" THEN [kind |-> "raise", rec |-> {}, exc |-> meta.exc]
             ELSE IF meta.value.t # "dict"
                  THEN [kind |-> "raise", rec |-> {}, exc |-> "AttributeError"]
                  ELSE [kind |-> "record",
                        rec |-> {FileRecord(file_id, ProbeUrl(base_url, file_id), meta.value)},
                        exc |-> "none"]

\* ------------------------------------------------------------- list.sort
\* results.sort(key=lambda r: r["id"], reverse=True): a stable sort
\* mutant: the comparison of an ascending sort
RECURSIVE InsertAsc(_, _)
InsertAsc(r, sorted) ==
    IF sorted = <<>> THEN <<r>>
    ELSE IF sorted[1].id <= r.id THEN <<sorted[1]>> \o InsertAsc(r, Tail(sorted))
         ELSE <<r>> \o sorted
RECURSIVE InsertDesc(_, _)
InsertDesc(r, sorted) ==
    IF sorted = <<>> THEN <<r>>
    ELSE IF sorted[1].id >= r.id THEN <<sorted[1]>> \o InsertDesc(r, Tail(sorted))
         ELSE <<r>> \o sorted
\* mutant: the list is returned in arrival order
ArrivalOrder(list) == list
RECURSIVE SortedDesc(_)
SortedDesc(list) ==
    IF list = <<>> THEN <<>>
    ELSE InsertDesc(list[Len(list)], SortedDesc(SubSeq(list, 1, Len(list) - 1)))

\* ==================================================================== state
VARIABLES
    start_id, count, workers, \* the arguments of scan_canvas_files
    host, \* the host: what it answers for each candidate ID
    pc, \* where the main thread stands
    submitted, \* how many IDs the comprehension of lines 123-126 has taken
    task, \* each probe task: "none", "queued", "checked", "request", "failing", "done"
    future, \* each task's future: [kind, rec, exc], kind "pending" until it completes
    stop_event, \* the Event of line 107
    requests, \* how many GETs were issued for each ID
    yielded, \* the futures as_completed has handed to the loop
    results, \* the list of line 120
    log, \* the log lines written: <<level, file ID>>
    interrupted, \* a KeyboardInterrupt was raised in the main thread
    ret, \* what scan_canvas_files returned
    hits, \* _cli's hits
    saved, \* the list written to the report file
    stream, \* an ID stream generator on its own
    cls            \* a response classifier on its own

scanVars == <<start_id, count, workers, host, pc, submitted, task, future, stop_event,
              requests, yielded, results, log, interrupted, ret, hits, saved>>
vars == <<scanVars, stream, cls>>

Pending == [kind |-> "pending", rec |-> {}, exc |-> "none"]
IdleStream == [start |-> 0, count |-> 0, cur |-> 0, out |-> <<>>, runs |-> <<>>]
IdleCls == [content_type |-> <<>>, body |-> <<>>, geturl |-> <<>>,
            done |-> FALSE, out |-> Raise("none")]

\* the IDs the scan is asked to inspect
Candidates(start, n) == {start - i : i \in 1..n}
StartIds == {101}
AllIds == UNION {Candidates(s, MaxCount) : s \in StartIds}

\* The hosts scanned: every candidate ID is answered in one of the ways of
\* HostKinds; which of its two forms an existing file is served in goes with
\* the file (here: even IDs as JSON, odd IDs as a page).
Hosts(start, n) ==
    {h \in [Candidates(start, n) -> HostKinds] :
        \A f \in Candidates(start, n) :
            /\ h[f] = "json" => f % 2 = 0
            /\ h[f] = "html" => f % 2 = 1}

\* what _fetch_file makes of each answer, for every candidate ID: the table of
\* FetchOutcome over the answers of HostResponse
Fetched ==
    [kind \in HostKinds, fid \in AllIds |->
        FetchOutcome(fid, BaseUrl, HostResponse(kind, fid))]

Running == {f \in DOMAIN task : task[f] \in {"checked", "request", "failing"}}
Queued == {f \in DOMAIN task : task[f] = "queued"}
Ids == FileIdStream(start_id, count)

\* ------------------------------------------------------------------- Init
ScanInit ==
    /\ start_id \in StartIds
    /\ count \in 0..MaxCount
    /\ workers \in 1..MaxWorkers
    /\ host \in Hosts(start_id, count)
    /\ pc = "submit"
    /\ submitted = 0
    /\ task = [f \in Candidates(start_id, count) |-> "none"]
    /\ future = [f \in Candidates(start_id, count) |-> Pending]
    /\ stop_event = FALSE
    /\ requests = [f \in Candidates(start_id, count) |-> 0]
    /\ yielded = {}
    /\ results = <<>>
    /\ log = {}
    /\ interrupted = FALSE
    /\ ret = <<>>
    /\ hits = <<>>
    /\ saved = <<>>

Init == ScanInit /\ stream = IdleStream /\ cls = IdleCls

\* ------------------------------------------------- scan_canvas_files: submit
\* lines 123-126: the comprehension takes the generator's next ID and submits
\* a task for it; the generator exhausted, the loop of line 128 begins
Submit ==
    /\ pc = "submit"
    /\ IF submitted < Len(Ids)
       THEN /\ task' = [task EXCEPT ![Ids[submitted + 1]] = "queued"]
            /\ submitted' = submitted + 1
            /\ pc' = pc
       ELSE /\ pc' = "drain"
            /\ UNCHANGED <<task, submitted>>
    /\ UNCHANGED <<start_id, count, workers, host, future, stop_event, requests, yielded,
                    results, log, interrupted, ret, hits, saved, stream, cls>>

\* ------------------------------------------------------------ pool threads
\* mutant: the probe runs without the entry check
WorkerStartNoCheck(f) ==
    /\ task[f] = "queued"
    /\ f = Max(Queued)
    /\ Cardinality(Running) < workers
    /\ task' = [task EXCEPT ![f] = "checked"]
    /\ UNCHANGED <<start_id, count, workers, host, pc, submitted, future, stop_event, requests,
                   yielded, results, log, interrupted, ret, hits, saved, stream, cls>>

\* mutant: a queued task is never started once stop_event is set
WorkerStartUnlessSet(f) ==
    /\ task[f] = "queued"
    /\ f = Max(Queued)
    /\ Cardinality(Running) < workers
    /\ ~stop_event
    /\ task' = [task EXCEPT ![f] = "checked"]
    /\ UNCHANGED <<start_id, count, workers, host, pc, submitted, future, stop_event, requests,
                   yielded, results, log, interrupted, ret, hits, saved, stream, cls>>

\* mutant: a thread for every queued task
WorkerStartUnbounded(f) ==
    /\ task[f] = "queued"
    /\ f = Max(Queued)
    /\ IF stop_event
       THEN /\ task' = [task EXCEPT ![f] = "done"]
            /\ future' = [future EXCEPT ![f] = [kind |-> "none", rec |-> {}, exc |-> "none"]]
       ELSE /\ task' = [task EXCEPT ![f] = "checked"]
            /\ UNCHANGED future
    /\ UNCHANGED <<start_id, count, workers, host, pc, submitted, stop_event, requests,
                   yielded, results, log, interrupted, ret, hits, saved, stream, cls>>

\* mutant: the pool runs one thread more than max_workers
WorkerStartOneMore(f) ==
    /\ task[f] = "queued"
    /\ f = Max(Queued)
    /\ Cardinality(Running) <= workers
    /\ IF stop_event
       THEN /\ task' = [task EXCEPT ![f] = "done"]
            /\ future' = [future EXCEPT ![f] = [kind |-> "none", rec |-> {}, exc |-> "none"]]
       ELSE /\ task' = [task EXCEPT ![f] = "checked"]
            /\ UNCHANGED future
    /\ UNCHANGED <<start_id, count, workers, host, pc, submitted, stop_event, requests,
                   yielded, results, log, interrupted, ret, hits, saved, stream, cls>>

\* A pool thread takes the oldest queued task (the queue is first in, first
\* out and the IDs are submitted in descending order; at most `workers`
\* threads exist) and runs the entry check of lines 62-63 on it.
WorkerStart(f) ==
    /\ task[f] = "queued"
    /\ f = Max(Queued)
    /\ Cardinality(Running) < workers
    /\ IF stop_event
       THEN /\ task' = [task EXCEPT ![f] = "done"]
            /\ future' = [future EXCEPT ![f] = [kind |-> "none", rec |-> {}, exc |-> "none"]]
       ELSE /\ task' = [task EXCEPT ![f] = "checked"]
            /\ UNCHANGED future
    /\ UNCHANGED <<start_id, count, workers, host, pc, submitted, stop_event, requests,
                   yielded, results, log, interrupted, ret, hits, saved, stream, cls>>

\* lines 65-67: past the check, the GET is issued
WorkerRequest(f) ==
    /\ task[f] = "checked"
    /\ task' = [task EXCEPT ![f] = "request"]
    /\ requests' = [requests EXCEPT ![f] = @ + 1]
    /\ UNCHANGED <<start_id, count, workers, host, pc, submitted, future, stop_event,
                   yielded, results, log, interrupted, ret, hits, saved, stream, cls>>

\* mutant: a failing probe flips the flag instead of setting it
WorkerResponseFlip(f) ==
    /\ task[f] = "request"
    /\ LET o == Fetched[host[f], f]
       IN  IF o.kind = "raise"
           THEN /\ stop_event' = ~stop_event
                /\ task' = [task EXCEPT ![f] = "failing"]
                /\ future' = future
                /\ log' = log
           ELSE /\ task' = [task EXCEPT ![f] = "done"]
                /\ future' = [future EXCEPT ![f] = o]
                /\ log' = IF o.kind = "record" THEN log \cup {<<"INFO", f>>} ELSE log
                /\ stop_event' = stop_event
    /\ UNCHANGED <<start_id, count, workers, host, pc, submitted, requests, yielded,
                   results, interrupted, ret, hits, saved, stream, cls>>

\* mutant: a 404 sets the flag as well, and the probe still returns None
WorkerResponseStopOnMiss(f) ==
    /\ task[f] = "request"
    /\ LET o == Fetched[host[f], f]
       IN  IF o.kind = "raise"
           THEN /\ stop_event' = TRUE
                /\ task' = [task EXCEPT ![f] = "failing"]
                /\ future' = future
                /\ log' = log
           ELSE /\ task' = [task EXCEPT ![f] = "done"]
                /\ future' = [future EXCEPT ![f] = o]
                /\ log' = IF o.kind = "record" THEN log \cup {<<"INFO", f>>} ELSE log
                /\ stop_event' = (stop_event \/ o.kind = "none")
    /\ UNCHANGED <<start_id, count, workers, host, pc, submitted, requests, yielded,
                   results, interrupted, ret, hits, saved, stream, cls>>

\* mutant: a failing probe raises without setting the flag
WorkerResponseNoSet(f) ==
    /\ task[f] = "request"
    /\ LET o == Fetched[host[f], f]
       IN  IF o.kind = "raise"
           THEN /\ task' = [task EXCEPT ![f] = "failing"]
                /\ future' = future
                /\ log' = log
           ELSE /\ task' = [task EXCEPT ![f] = "done"]
                /\ future' = [future EXCEPT ![f] = o]
                /\ log' = IF o.kind = "record" THEN log \cup {<<"INFO", f>>} ELSE log
    /\ UNCHANGED <<start_id, count, workers, host, pc, submitted, stop_event, requests,
                   yielded, results, interrupted, ret, hits, saved, stream, cls>>

\* lines 67-85: the answer arrives
WorkerResponse(f) ==
    /\ task[f] = "request"
    /\ LET o == Fetched[host[f], f]
       IN  IF o.kind = "raise"
           THEN /\ stop_event' = TRUE
                /\ task' = [task EXCEPT ![f] = "failing"]
                /\ future' = future
                /\ log' = log
           ELSE /\ task' = [task EXCEPT ![f] = "done"]
                /\ future' = [future EXCEPT ![f] = o]
                /\ log' = IF o.kind = "record" THEN log \cup {<<"INFO", f>>} ELSE log
                /\ stop_event' = stop_event
    /\ UNCHANGED <<start_id, count, workers, host, pc, submitted, requests, yielded, 
                   results, interrupted, ret, hits, saved, stream, cls>>

\* lines 82, 85: the raise, after stop_event.set(); the future takes the exception
WorkerRaise(f) ==
    /\ task[f] = "failing"
    /\ task' = [task EXCEPT ![f] = "done"]
    /\ future' = [future EXCEPT ![f] =
                    [kind |-> "exception", rec |-> {},
                     exc |-> Fetched[host[f], f].exc]]
    /\ UNCHANGED <<start_id, count, workers, host, pc, submitted, stop_event, requests,
                   yielded, results, log, interrupted, ret, hits, saved, stream, cls>>

\* -------------------------------------------------- scan_canvas_files: drain
\* lines 128-139: as_completed hands over a completed future, in any order,
\* and the loop body runs on it; when every future was handed over the loop
\* ends.  The body reads stop_event once and then only the completed future,
\* so the hand-over and the body are one step.
DrainEnd ==
    /\ pc = "drain"
    /\ yielded = DOMAIN task
    /\ pc' = "shutdown"
    /\ UNCHANGED <<start_id, count, workers, host, submitted, task, future, stop_event,
                   requests, yielded, results, log, interrupted, ret, hits, saved,
                   stream, cls>>

\* mutant: the loop body reads the result before it looks at stop_event
DrainResultFirst(fid) ==
    /\ pc = "drain"
    /\ fid \notin yielded
    /\ future[fid].kind # "pending"
    /\ yielded' = yielded \cup {fid}
    /\ results' = IF future[fid].kind = "record"
                  THEN results \o <<CHOOSE r \in future[fid].rec : TRUE>>
                  ELSE results
    /\ log' = log
    /\ pc' = IF stop_event THEN "shutdown" ELSE "drain"
    /\ UNCHANGED <<start_id, count, workers, host, submitted, task, future, stop_event,
                   requests, interrupted, ret, hits, saved, stream, cls>>

\* mutant: the loop body without the test of stop_event
DrainNoTest(fid) ==
    /\ pc = "drain"
    /\ fid \notin yielded
    /\ future[fid].kind # "pending"
    /\ yielded' = yielded \cup {fid}
    /\ pc' = "drain"
    /\ results' = IF future[fid].kind = "record"
                  THEN results \o <<CHOOSE r \in future[fid].rec : TRUE>>
                  ELSE results
    /\ log' = IF future[fid].kind = "exception"
              THEN log \cup {<<"ERROR", fid>>}
              ELSE log
    /\ UNCHANGED <<start_id, count, workers, host, submitted, task, future, stop_event,
                   requests, interrupted, ret, hits, saved, stream, cls>>

Drain(fid) ==
    /\ pc = "drain"
    /\ fid \notin yielded
    /\ future[fid].kind # "pending"
    /\ yielded' = yielded \cup {fid}
    /\ IF stop_event
       THEN /\ pc' = "shutdown"
            /\ UNCHANGED <<results, log>>
       ELSE /\ pc' = "drain"
            /\ results' = IF future[fid].kind = "record"
                          THEN results \o <<CHOOSE r \in future[fid].rec : TRUE>>
                          ELSE results
            /\ log' = IF future[fid].kind = "exception"
                      THEN log \cup {<<"ERROR", fid>>}
                      ELSE log
    /\ UNCHANGED <<start_id, count, workers, host, submitted, task, future, stop_event,
                   requests, interrupted, ret, hits, saved, stream, cls>>

\* A KeyboardInterrupt in the main thread while it is inside the with block
Interrupt ==
    /\ pc \in {"submit", "drain"}
    /\ interrupted' = TRUE
    /\ pc' = "shutdown"
    /\ UNCHANGED <<start_id, count, workers, host, submitted, task, future, stop_event,
                   requests, yielded, results, log, ret, hits, saved, stream, cls>>

\* line 122, leaving the with block: shutdown(wait=True) returns when every
\* submitted task has run; then lines 141-142, or the interrupt goes on to
\* the caller
Finish ==
    /\ pc = "shutdown"
    /\ \A f \in DOMAIN task : task[f] \in {"none", "done"}
    /\ IF interrupted
       THEN /\ pc' = "raised"
            /\ UNCHANGED <<results, ret>>
       ELSE /\ results' = SortedDesc(results)
            /\ ret' = results'
            /\ pc' = "returned"
    /\ UNCHANGED <<start_id, count, workers, host, submitted, task, future, stop_event,
                   requests, yielded, log, interrupted, hits, saved, stream, cls>>

\* ------------------------------------------------------------------- _cli
\* lines 173-183
CliHits ==
    /\ pc \in {"returned", "raised"}
    /\ hits' = IF pc = "returned" THEN ret ELSE <<>>
    /\ pc' = "dump"
    /\ UNCHANGED <<start_id, count, workers, host, submitted, task, future, stop_event,
                   requests, yielded, results, log, interrupted, ret, saved, stream, cls>>

\* lines 185-190
CliSave ==
    /\ pc = "dump"
    /\ saved' = hits
    /\ pc' = "saved"
    /\ UNCHANGED <<start_id, count, workers, host, submitted, task, future, stop_event,
                   requests, yielded, results, log, interrupted, ret, hits, stream, cls>>

Next ==
    \/ Submit
    \/ \E f \in DOMAIN task : WorkerStart(f)
    \/ \E f \in DOMAIN task : WorkerRequest(f)
    \/ \E f \in DOMAIN task : WorkerResponse(f)
    \/ \E f \in DOMAIN task : WorkerRaise(f)
    \/ DrainEnd
    \/ \E f \in DOMAIN task : Drain(f)
    \/ Finish
    \/ CliHits
    \/ CliSave

Spec == Init /\ [][Next]_vars

\* the run with an operator who may interrupt it
NextCli == Next \/ Interrupt
SpecCli == Init /\ [][NextCli]_vars

\* the run in which a step is taken whenever one can be: a thread that can
\* go on is scheduled, a GET that was issued gets its answer
Fairness == WF_vars(Next)
SpecFair == Init /\ [][Next]_vars /\ Fairness

\* no scan going on: the state of the scan variables while a generator or a
\* classifier is looked at on its own
ScanIdle ==
    /\ start_id = 0 /\ count = 0 /\ workers = 1
    /\ host = <<>> /\ task = <<>> /\ future = <<>> /\ requests = <<>>
    /\ pc = "idle" /\ submitted = 0 /\ stop_event = FALSE /\ yielded = {}
    /\ results = <<>> /\ log = {} /\ interrupted = FALSE
    /\ ret = <<>> /\ hits = <<>> /\ saved = <<>>

\* ------------------------------------------- _file_id_stream, step by step
\* A generator made by _file_id_stream(start, count): cur is what the range
\* iterator of line 50 stands at, out what was yielded so far; runs keeps what
\* earlier generators made with the same arguments yielded.
StreamInit ==
    /\ ScanIdle
    /\ cls = IdleCls
    /\ \E s \in 0..MaxStart, n \in 0..MaxStreamCount :
          stream = [start |-> s, count |-> n, cur |-> StreamFirst(s), out |-> <<>>,
                    runs |-> <<>>]

\* lines 50-51: the loop yields the next ID
StreamYield ==
    /\ stream.cur > StreamStop(stream.start, stream.count)
    /\ stream' = [stream EXCEPT !.out = Append(@, stream.cur), !.cur = @ - 1]
    /\ UNCHANGED <<scanVars, cls>>

\* the generator is exhausted; _file_id_stream is called again with the same
\* arguments
StreamAgain ==
    /\ stream.cur <= StreamStop(stream.start, stream.count)
    /\ Len(stream.runs) < MaxRuns
    /\ stream' = [stream EXCEPT !.runs = Append(@, stream.out), !.out = <<>>,
                                !.cur = StreamFirst(stream.start)]
    /\ UNCHANGED <<scanVars, cls>>

StreamNext == StreamYield \/ StreamAgain
SpecStream == StreamInit /\ [][StreamNext]_vars

\* --------------------------------------------- _parse_response on its own
BothCT == <<"text/html", "application/json">>
ContentTypes == {JsonCT, HtmlCT, PlainCT, BothCT, <<>>}
EffectiveUrls == { <<"https", "://", "h", "/courses/1", "/files/", "4", "2">>,
                   <<"http", "://", "h2", "/login">> }

LabelFrag == <<"Download ", "report.pdf", "</a>">>
AbsAnchorFrag == <<"<a href=\"", "https", "://", "h", "/courses/1", "/files/", "4", "2",
                   "/download", "\"", ">">>
RelAnchorFrag == <<"<a href=\"", "/courses/1", "/files/", "4", "2", "/download", "\"", ">">>
NoFileAnchorFrag == <<"<a href=\"", "/files/", "\"", ">">>
EmptyObjFrag == <<"{", "}">>
DupObjFrag == <<"{", "\"display_name\"", ":", "\"X\"", ",", "\"display_name\"", ":", "null", "}">>
Fragments == { LabelFrag, AbsAnchorFrag, RelAnchorFrag, NoFileAnchorFrag,
               <<"Download ">>, <<"\n">>, <<"/files/", "7">>,
               JsonBody, EmptyObjFrag, DupObjFrag, <<"\"X\"">>, <<"{">> }

RECURSIVE Flatten(_)
Flatten(ss) == IF ss = <<>> THEN <<>> ELSE ss[1] \o Flatten(Tail(ss))
\* the bodies a host may send: up to MaxFrags fragments in a row
Bodies == UNION { {Flatten(fs) : fs \in [1..n -> Fragments]} : n \in 0..MaxFrags }

ClsInit ==
    /\ ScanIdle
    /\ stream = IdleStream
    /\ cls = IdleCls

\* a response arrives and _parse_response runs on it
ClsClassify ==
    /\ ~cls.done
    /\ \E ct \in ContentTypes, body \in Bodies, u \in EffectiveUrls :
          cls' = [content_type |-> ct, body |-> body, geturl |-> u, done |-> TRUE,
                  out |-> ParseResponse(ct, body, u)]
    /\ UNCHANGED <<scanVars, stream>>

ClsNext == ClsClassify
SpecCls == ClsInit /\ [][ClsNext]_vars

\* =================================================================== claims
HitKinds == {"json", "html"}
FatalKinds == {"forbidden", "garbled"}
HostHits == {f \in DOMAIN host : host[f] \in HitKinds}
NoFatalHost == \A f \in DOMAIN host : host[f] \in HitKinds \cup {"notfound"}
SomeFatalHost == \E f \in DOMAIN host : host[f] \in FatalKinds
IdsOf(list) == [i \in 1..Len(list) |-> list[i].id]
StrictlyDescending(ids) == \A i, j \in 1..Len(ids) : i < j => ids[i] > ids[j]
\* the probes that completed with a hit: the GET was made, the host serves the
\* ID as a file, and the task ended
CompletedHits == {f \in DOMAIN host : host[f] \in HitKinds /\ requests[f] = 1 /\ task[f] = "done"}

\* C1: when no candidate ID is answered with a fatal condition, the scan
\* returns one record for every ID the host serves as a file and no other, in
\* descending ID order, whatever the number of workers and the interleaving.
C1_NoFatalReturnsAllHits ==
    (pc = "returned" /\ NoFatalHost) =>
        /\ StrictlyDescending(IdsOf(ret))
        /\ {ret[i].id : i \in 1..Len(ret)} = HostHits
        /\ Len(ret) = Cardinality(HostHits)
        /\ \A i \in 1..Len(ret) : ret[i].url = ProbeUrl(BaseUrl, ret[i].id)

\* C1 witness: hits for S-1 and S-3 around a miss, two workers, returned as [S-1, S-3]
C1_Witness ==
    /\ pc = "returned" /\ count = 3 /\ workers = 2
    /\ host[start_id - 1] \in HitKinds /\ host[start_id - 2] = "notfound"
    /\ host[start_id - 3] \in HitKinds
    /\ IdsOf(ret) = <<start_id - 1, start_id - 3>>

\* C2: with a fatal probe in the range the scan still returns (nothing is
\* raised to the caller), and every returned record is for an ID whose probe
\* completed with a hit.
C2_FatalReturnsSubsetOfCompletedHits ==
    /\ pc # "raised"
    /\ (pc = "returned" /\ SomeFatalHost) =>
          /\ \A i \in 1..Len(ret) : ret[i].id \in CompletedHits
          /\ \A i \in 1..Len(ret) : future[ret[i].id].kind = "record"

\* C2 witness: the probe of S-2 was fatal, the hit S-1 is returned and the hit
\* S-3 is not
C2_Witness ==
    /\ pc = "returned" /\ count = 3
    /\ host[start_id - 2] = "forbidden" /\ requests[start_id - 2] = 1
    /\ host[start_id - 1] \in HitKinds /\ host[start_id - 3] \in HitKinds
    /\ IdsOf(ret) = <<start_id - 1>>

\* C3: in every execution the returned list is strictly descending by id, so
\* no id occurs twice in it.
C3_ReturnStrictlyDescending ==
    pc = "returned" =>
        /\ StrictlyDescending(IdsOf(ret))
        /\ \A i, j \in 1..Len(ret) : ret[i].id = ret[j].id => i = j

\* C3 witness: two hits returned although a fatal probe stopped the scan
C3_Witness ==
    /\ pc = "returned" /\ stop_event /\ Len(ret) = 2

\* C5: exactly count tasks are submitted, one for each of S-1..S-N and none
\* twice; no ID is requested more than once; without a fatal probe every ID
\* is requested exactly once by the time the scan returns.
C5_OneTaskAndAtMostOneGetPerId ==
    LET ids == Ids
        taken == {ids[i] : i \in 1..submitted}
        tasks == {f \in DOMAIN task : task[f] # "none"}
    IN  /\ \A f \in DOMAIN requests : requests[f] <= 1
        /\ submitted <= count
        /\ Cardinality(taken) = submitted
        /\ tasks = taken
        /\ taken \subseteq Candidates(start_id, count)
        /\ (pc # "submit") =>
              /\ submitted = count
              /\ tasks = Candidates(start_id, count)
        /\ (pc = "returned" /\ NoFatalHost) => \A f \in DOMAIN requests : requests[f] = 1

\* C5 witness: three tasks submitted, a fatal probe, and an ID never requested
C5_Witness ==
    /\ pc = "returned" /\ count = 3 /\ submitted = 3 /\ SomeFatalHost
    /\ \E f \in DOMAIN requests : requests[f] = 0
    /\ \E f \in DOMAIN requests : requests[f] = 1

\* C6: _file_id_stream(S, N) yields S-1, S-2, ..., S-N in that order and
\* nothing else, without a repeat, and the same on every call with the same
\* arguments.
C6_StreamYieldsDescendingIds ==
    LET S == stream.start
        N == stream.count
        expected == [i \in 1..N |-> S - i]
    IN  /\ Len(stream.out) <= N
        /\ stream.out = SubSeq(expected, 1, Len(stream.out))
        /\ \A i, j \in 1..Len(stream.out) : stream.out[i] = stream.out[j] => i = j
        /\ (stream.cur <= StreamStop(S, N)) => stream.out = expected
        /\ \A k \in 1..Len(stream.runs) : stream.runs[k] = expected
        /\ FileIdStream(S, N) = expected

\* C6 witness: a third generator with the same arguments has yielded its last ID
C6_Witness ==
    /\ stream.count >= 3 /\ Len(stream.runs) = 2
    /\ Len(stream.out) = stream.count
    /\ stream.out[stream.count] = stream.start - stream.count

\* C4: an operator's interrupt while the coordinator drains completions is
\* not propagated, and the records collected up to then are what _cli gets
\* and writes to the report.
C4_InterruptKeepsPartialResults ==
    (pc = "saved" /\ interrupted) => IdsOf(saved) = IdsOf(SortedDesc(results))

\* C7: for the text/html body `Download report.pdf</a>` followed by the anchor
\* <a href="https://h/courses/1/files/42/download">, with effective URL
\* https://h/courses/1/files/42, the classifier returns display_name
\* "report.pdf" and the download URL
\* https://h/courses/1/files/42/download?download_frd=1.
C7_AbsoluteHrefExample ==
    ( /\ cls.done
      /\ cls.content_type = HtmlCT
      /\ cls.body = LabelFrag \o AbsAnchorFrag
      /\ cls.geturl = <<"https", "://", "h", "/courses/1", "/files/", "4", "2">> )
    => /\ cls.out.kind = "return"
       /\ DictGet(cls.out.value, <<"display_name">>) = PyStr(<<"report.pdf">>)
       /\ DictGet(cls.out.value, <<"url">>) =
             PyStr(<<"https", "://", "h", "/courses/1", "/files/", "4", "2",
                     "/download?download_frd=1">>)

\* what the body holds, said without the search order of the patterns
HasLabel(body) ==
    \E i, j \in 1..Len(body) :
        /\ i < j /\ body[i] = "Download " /\ body[j] = "</a>"
        /\ \A k \in (i + 1)..(j - 1) : body[k] # "\n"
HasFileHref(body) ==
    \E i, m \in 1..Len(body) :
        /\ i < m /\ m < Len(body)
        /\ body[i] = "<a href=\"" /\ body[m] = "/files/" /\ body[m + 1] \in Digits
        /\ \A k \in (i + 1)..(m - 1) : body[k] # "\""

\* C8: the classifier chooses its mode by the declared content type: with
\* application/json the parsed payload is returned as it is (display_name,
\* created_at and url verbatim); with text/html it succeeds exactly when both
\* the "Download " label and the .../files/<digits> href are found and fails
\* with the parse error otherwise; with any other content type it fails with
\* the unexpected-content-type error.
C8_ModeByContentType ==
    cls.done =>
        IF Has(cls.content_type, "application/json")
        THEN /\ cls.out.kind = "raise" => cls.out.exc = "JSONDecodeError"
             /\ cls.body = JsonBody =>
                   /\ cls.out.kind = "return"
                   /\ cls.out.value.t = "dict"
                   /\ cls.out.value.d =
                         { <<<<"display_name">>, PyStr(<<"X">>)>>,
                           <<<<"created_at">>, PyStr(<<"T">>)>>,
                           <<<<"url">>, PyStr(<<"https", "://", "h", "/files/", "9", "9",
                                                "/download?download_frd=1">>)>> }
             /\ cls.body = EmptyObjFrag => cls.out = Return(PyDict({}))
             /\ cls.body = <<"\"X\"">> => cls.out = Return(PyStr(<<"X">>))
        ELSE IF Has(cls.content_type, "text/html")
        THEN IF HasLabel(cls.body) /\ HasFileHref(cls.body)
             THEN /\ cls.out.kind = "return"
                  /\ cls.out.value.t = "dict"
                  /\ {p[1] : p \in cls.out.value.d} =
                        {<<"display_name">>, <<"created_at">>, <<"url">>}
                  /\ DictGet(cls.out.value, <<"created_at">>) = PyStr(<<>>)
             ELSE cls.out = Raise("ValueError: Unable to parse HTML response from Canvas")
        ELSE cls.out = Raise("ValueError: Unexpected content type")

\* C8 witness: a text/html page with the label but no file href is refused
C8_Witness ==
    /\ cls.done
    /\ cls.content_type = HtmlCT
    /\ HasLabel(cls.body) /\ ~HasFileHref(cls.body)
    /\ cls.out.kind = "raise"

\* C9: a probe answered with an error status other than 404 sets the
\* cancellation signal and its future ends with the exception; a probe that
\* reaches its entry check with the signal set abstains: no request, no
\* record, no exception, and the signal stays as it is.
C9_FatalSetsSignalAndLaterProbesAbstain ==
    /\ [](\A f \in DOMAIN host :
            (host[f] = "forbidden" /\ requests[f] = 1 /\ task[f] \in {"failing", "done"}) =>
                /\ stop_event
                /\ task[f] = "done" => future[f].kind = "exception")
    /\ [][\A f \in DOMAIN task :
            (task[f] = "queued" /\ task'[f] # "queued" /\ stop_event) =>
                /\ task'[f] = "done"
                /\ requests'[f] = 0
                /\ future'[f].kind = "none"
                /\ stop_event' = stop_event
                /\ log' = log]_vars
    /\ [](\A f \in DOMAIN task : (task[f] = "done" /\ requests[f] = 0) =>
            future[f].kind = "none" /\ stop_event)

\* C9 witness: S-1 was answered 403 and S-3, started afterwards, abstained
C9_Witness ==
    /\ count = 3
    /\ host[start_id - 1] = "forbidden" /\ future[start_id - 1].kind = "exception"
    /\ host[start_id - 3] = "json"
    /\ task[start_id - 3] = "done" /\ requests[start_id - 3] = 0
    /\ future[start_id - 3].kind = "none"

\* C10: a probe answered 404 is a miss: the signal stays unset, nothing is
\* raised, no record comes of it; a scan in which every ID is answered 404
\* returns the empty list after draining all count completions.
C10_NotFoundIsAbsorbed ==
    /\ \A f \in DOMAIN host :
          (host[f] = "notfound" /\ requests[f] = 1 /\ task[f] = "done") =>
              /\ future[f].kind = "none"
              /\ \A i \in 1..Len(results) : results[i].id # f
              /\ \A i \in 1..Len(ret) : ret[i].id # f
              /\ \A l \in log : l[2] # f
    /\ \A f \in DOMAIN host : host[f] = "notfound" => task[f] # "failing"
    /\ stop_event => \E f \in DOMAIN host : host[f] # "notfound" /\ requests[f] = 1
    /\ (pc = "returned" /\ \A f \in DOMAIN host : host[f] = "notfound") =>
          /\ ret = <<>>
          /\ yielded = Candidates(start_id, count)
          /\ Cardinality(yielded) = count
          /\ \A f \in DOMAIN host : requests[f] = 1

\* C10 witness: three IDs, all answered 404, and the scan has returned
C10_Witness ==
    /\ pc = "returned" /\ count = 3
    /\ \A f \in DOMAIN host : host[f] = "notfound" /\ requests[f] = 1
    /\ ret = <<>> /\ ~stop_event


\* C11: every probe that ends Fatal leaves an error-level log line that names
\* its ID: once the scan has returned, each future that holds an exception
\* has its ERROR line in the log.
C11_EveryFatalIsLogged ==
    pc = "returned" =>
        \A f \in DOMAIN future :
            future[f].kind = "exception" => <<"ERROR", f>> \in log


IdSet(list) == {list[i].id : i \in 1..Len(list)}

\* C12: when the coordinator takes a completion and finds stop_event set, it
\* leaves the loop with the result collection as it was, whatever the
\* completion holds; outside the loop no completion is taken and no record is
\* added or removed, so the completions not yet taken are never looked at;
\* what is returned holds only IDs taken in the loop.
C12_SetSignalEndsDrain ==
    /\ [][(pc = "drain" /\ stop_event /\ yielded' # yielded) =>
              (pc' = "shutdown" /\ results' = results)]_vars
    /\ [][pc # "drain" => (yielded' = yielded /\ IdSet(results') = IdSet(results))]_vars
    /\ [](IdSet(results) \subseteq yielded)
    /\ [](pc = "returned" => IdSet(ret) = IdSet(results))

\* C12 witness: the scan returned; one hit was taken from the pool with the
\* signal set and another was never taken, and neither is in the list
C12_Witness ==
    /\ pc = "returned" /\ stop_event
    /\ \E f \in yielded : future[f].kind = "record" /\ f \notin IdSet(ret)
    /\ \E f \in DOMAIN future \ yielded : future[f].kind = "record"


\* C13: stop_event is unset while no task was submitted yet; once set it
\* stays set in every later state of the scan; every step in which a probe
\* fails ends with it set, also when another probe had set it before.
C13_SignalStartsUnsetAndIsMonotonic ==
    /\ [](submitted = 0 => ~stop_event)
    /\ [][stop_event => stop_event']_vars
    /\ [][\A f \in DOMAIN task :
            (task[f] = "request" /\ task'[f] = "failing") => stop_event']_vars

\* C13 witness: two probes have both failed and set the signal, neither has
\* raised yet
C13_Witness ==
    /\ stop_event
    /\ \E f, g \in DOMAIN task : f # g /\ task[f] = "failing" /\ task[g] = "failing"


ParseErrors == {"ValueError: Unable to parse HTML response from Canvas",
                "ValueError: Unexpected content type",
                "JSONDecodeError"}

\* C14: a probe whose GET is answered 200 with something _parse_response
\* refuses (a page without the two patterns, an unknown content type, a body
\* that is not JSON) fails like one answered with an error status: once the
\* answer was handled stop_event is set, the future ends with the parse
\* error, there is no record and no FOUND line for the ID, and the drain loop
\* never ends by exhaustion once the signal is set.
C14_UnclassifiableIsFatal ==
    /\ [](\A f \in DOMAIN host :
            (host[f] = "garbled" /\ requests[f] = 1 /\ task[f] \in {"failing", "done"}) =>
                /\ stop_event
                /\ task[f] = "done" =>
                      /\ future[f].kind = "exception"
                      /\ future[f].exc \in ParseErrors
                      /\ future[f].exc = ParseResponse(HostResponse("garbled", f).content_type,
                                                       HostResponse("garbled", f).body,
                                                       HostResponse("garbled", f).geturl).exc
                /\ f \notin IdSet(results) /\ f \notin IdSet(ret)
                /\ <<"INFO", f>> \notin log
                /\ FetchOutcome(f, BaseUrl, HostResponse("garbled", f)).kind =
                      FetchOutcome(f, BaseUrl, HostResponse("forbidden", f)).kind)
    /\ [][(pc = "drain" /\ pc' = "shutdown" /\ yielded' = yielded) => ~stop_event]_vars
    /\ [](pc = "returned" /\ stop_event => yielded # {} /\ IdSet(ret) \subseteq yielded)

\* C14 witness: the scan returned after ID S-1 came with an unknown content
\* type and S-3 with a body cut short; S-2, a hit, was completed and is not
\* in the list
C14_Witness ==
    /\ pc = "returned" /\ count = 3 /\ ret = <<>>
    /\ host[start_id - 1] = "garbled"
    /\ future[start_id - 1].exc = "ValueError: Unexpected content type"
    /\ host[start_id - 3] = "garbled"
    /\ future[start_id - 3].exc = "JSONDecodeError"
    /\ future[start_id - 2].kind = "record"


\* C15: when the threads are scheduled fairly and every GET is answered,
\* scan_canvas_files returns in the end, for every count >= 0 and every
\* workers >= 1, with every submitted task run to its end, whether the loop
\* ran out of completions or left on a set signal.
C15_ScanEventuallyReturns ==
    <>(pc = "returned" /\ submitted = count /\ \A f \in DOMAIN task : task[f] = "done")

\* C15 witness: the scan returned after an early stop; a completion was never
\* taken, and a task that was still queued when the signal was set abstained
C15_Witness ==
    /\ pc = "returned" /\ stop_event /\ count = 3
    /\ yielded # DOMAIN task
    /\ \E f \in DOMAIN task : task[f] = "done" /\ requests[f] = 0


InFlight == {f \in DOMAIN task : task[f] = "request"}

\* C16: in every state of a scan with `workers` threads at most `workers`
\* tasks are between their entry check and their end, so at most `workers`
\* GETs are unanswered; every other submitted task is still in the queue or
\* has ended.
C16_AtMostWorkersRunning ==
    /\ Cardinality(Running) <= workers
    /\ Cardinality(InFlight) <= workers
    /\ InFlight \subseteq Running
    /\ \A f \in DOMAIN task \ Running : task[f] \in {"none", "queued", "done"}
    /\ Cardinality(Running \cup Queued \cup {f \in DOMAIN task : task[f] = "done"}) = submitted

\* C16 witness: two threads, both waiting for the answer to their GET, and a
\* third task in the queue
C16_Witness ==
    /\ workers = 2
    /\ Cardinality(InFlight) = 2
    /\ Queued # {}


\* C17: stop_event goes from unset to set only in the step in which a probe
\* answered with a fatal condition handles its answer, a step that is not the
\* coordinator's; so while it is set some such probe has made its GET, with
\* no such ID among the candidates it is unset in every state, and the
\* coordinator then takes all count completions before the loop ends.
C17_OnlyFatalProbeSetsSignal ==
    /\ [][(~stop_event /\ stop_event') =>
            /\ \E f \in DOMAIN task :
                  /\ host[f] \in FatalKinds
                  /\ task[f] = "request" /\ task'[f] = "failing"
                  /\ \A g \in DOMAIN task \ {f} : task'[g] = task[g]
            /\ pc' = pc /\ yielded' = yielded /\ results' = results]_vars
    /\ [](stop_event =>
            \E f \in DOMAIN host :
                host[f] \in FatalKinds /\ requests[f] = 1 /\ task[f] \in {"failing", "done"})
    /\ [](NoFatalHost => ~stop_event)
    /\ []((NoFatalHost /\ pc \in {"shutdown", "returned", "dump", "saved"}) =>
            /\ yielded = Candidates(start_id, count)
            /\ Cardinality(yielded) = count)

\* C17 witness: three IDs, a hit, a miss and a hit, none fatal; the scan
\* returned with the signal unset and three completions taken
C17_Witness ==
    /\ pc = "returned" /\ count = 3 /\ workers = 2 /\ ~stop_event
    /\ host[start_id - 1] = "json" /\ host[start_id - 2] = "notfound"
    /\ host[start_id - 3] = "json"
    /\ Cardinality(yielded) = 3 /\ Len(ret) = 2


\* C18: stop_event is already set in the state in which a future takes its
\* exception, and so in every state in which a future holds one; the
\* coordinator, when it takes such a completion, leaves the loop without
\* reading it, and no ERROR line is ever written.
C18_ExceptionOnlyAfterSignal ==
    /\ [][\A f \in DOMAIN future :
            (future[f].kind = "pending" /\ future'[f].kind = "exception") =>
                stop_event /\ stop_event']_vars
    /\ [](\A f \in DOMAIN future : future[f].kind = "exception" => stop_event)
    /\ [][\A f \in DOMAIN future :
            (f \notin yielded /\ f \in yielded' /\ future[f].kind = "exception") =>
                (pc' = "shutdown" /\ results' = results /\ log' = log)]_vars
    /\ [](\A l \in log : l[1] # "ERROR")

\* C18 witness: the completion the coordinator took last held an exception,
\* and the scan returned
C18_Witness ==
    /\ pc = "returned"
    /\ \E f \in yielded : future[f].kind = "exception" /\ host[f] = "forbidden"
    /\ \E f \in yielded : future[f].kind = "none" /\ host[f] = "notfound"


\* C19: the record of an ID comes into the result collection in exactly the
\* steps in which the coordinator takes that ID's completion, the completion
\* holds a record and stop_event is unset; no record ever leaves the
\* collection, and the list returned holds the IDs of the collection; so a
\* hit is returned if and only if it was taken with the signal unset.
C19_ReturnedIffDrainedBeforeSignal ==
    /\ [][\A f \in DOMAIN future :
            (f \notin IdSet(results) /\ f \in IdSet(results')) <=>
                /\ f \notin yielded /\ f \in yielded'
                /\ future[f].kind = "record"
                /\ ~stop_event]_vars
    /\ [][IdSet(results) \subseteq IdSet(results')]_vars
    /\ [](pc = "returned" => IdSet(ret) = IdSet(results) /\ Len(ret) = Cardinality(IdSet(ret)))
    /\ [](IdSet(results) \subseteq CompletedHits)

\* C19 witness: S-2 was fatal, the hits S-1 and S-3 both completed; only S-3
\* was taken with the signal unset and only S-3 is returned
C19_Witness ==
    /\ pc = "returned" /\ count = 3
    /\ host[start_id - 2] \in FatalKinds
    /\ CompletedHits = {start_id - 1, start_id - 3}
    /\ IdSet(ret) = {start_id - 3}


\* the probes past their entry check whose GET is still to be issued
PastCheck == {f \in DOMAIN task : task[f] = "checked"}

\* C20: a GET is issued only by a probe that is past its entry check; from
\* the state in which stop_event is set on, no probe passes the check any
\* more (a task taken from the queue ends without a GET), and at most
\* workers - 1 probes are past it with their GET still to come; so at most
\* workers - 1 GETs follow the setting of the signal, each by a probe that
\* had passed its check before.
C20_AtMostWorkersMinusOneLateRequests ==
    /\ [][\A f \in DOMAIN task : requests'[f] # requests[f] =>
            (task[f] = "checked" /\ requests'[f] = requests[f] + 1
             /\ task'[f] = "request")]_vars
    /\ [][stop_event' => PastCheck' \subseteq PastCheck]_vars
    /\ [](stop_event => Cardinality(PastCheck) <= workers - 1)
    /\ [][\A f \in DOMAIN task :
            (stop_event /\ task[f] = "queued" /\ task'[f] # "queued") =>
                (task'[f] = "done" /\ requests'[f] = 0)]_vars
    /\ [](\A f \in DOMAIN task : task[f] = "done" => f \notin PastCheck /\ requests[f] <= 1)

\* C20 witness: two threads; S-1 has failed and set the signal while S-2,
\* past its check, has its GET still to issue, and S-3 waits in the queue
C20_Witness ==
    /\ workers = 2 /\ count = 3 /\ stop_event
    /\ task[start_id - 1] \in {"failing", "done"} /\ future[start_id - 1].kind \in {"pending", "exception"}
    /\ host[start_id - 1] \in FatalKinds
    /\ task[start_id - 2] = "checked" /\ requests[start_id - 2] = 0
    /\ task[start_id - 3] = "queued"

====
